---- MODULE Spec2Model ----
(***************************************************************************)
(* Model of src/Isotope_ABN_DB_creation.py: parse_formula and the three    *)
(* calculate_m_plus_N_probability functions, run as the module-level       *)
(* execution runs them (M+1, then M+2, then M+3) on one formula string.    *)
(*                                                                         *)
(* A formula string is a sequence of one-character strings.                *)
(* A real number r is the natural number r * 10^18, written as a           *)
(* little-endian sequence of base-1000 limbs without leading zero limbs    *)
(* (zero is << >>).  Every abundance of the table is a multiple of 10^-6   *)
(* and no term of the code multiplies more than three abundances, so every *)
(* value the code computes is represented exactly.  A Python int that may  *)
(* exceed 31 bits (math.comb) is a limb sequence of scale 1.               *)
(***************************************************************************)
EXTENDS Integers, Naturals, Sequences, FiniteSets, TLC

VARIABLES formula, isotopic_abundances, pc, composition,
          probability_m1, probability, probability_m3, raised

\* calls in progress on concurrent threads: calls[t] holds the function
\* called, its argument, its position and its local variables
VARIABLES calls

\* randomisation.py: the Excel file the first run reads, the shuffled list
\* of (index, row) pairs, the randomised Excel file, the JSON file, the
\* recovered Excel file and the position of the two runs
VARIABLES excel_file, shuffled_table_with_index, randomised_file,
          json_file, recovered_file, gui_pc

isotopeVars == <<formula, isotopic_abundances, pc, composition,
                 probability_m1, probability, probability_m3, raised, calls>>

shuffleVars == <<excel_file, shuffled_table_with_index, randomised_file,
                 json_file, recovered_file, gui_pc>>

\* CSVs_for_MSP_format.py: the list of DataFrames, the entries built so
\* far, the written file and the position of the loops
VARIABLES dfs, output_lines, HomeDB_MS2, csv_pc

csvVars == <<dfs, output_lines, HomeDB_MS2, csv_pc>>

\* MSPDB_merging.py, pre-processing and merging: the tables as read from
\* the three MSP files, the three DataFrames, the two merged tables and the
\* position of the script
VARIABLES MSP1, MSP2, MSP3, homDB_data, POS_data, NEG_data,
          Home_POS_data, total_data, merge_pc

mergeVars == <<MSP1, MSP2, MSP3, homDB_data, POS_data, NEG_data,
               Home_POS_data, total_data, merge_pc>>

\* MSPDB_merging.py, modify_txt_file: the text of the input file, the
\* table, the dictionary of the entries, the lines of the output file and
\* the position of the call
VARIABLES homDB_text, table_df, txt_data, updated_homeDB, modify_pc

modifyVars == <<homDB_text, table_df, txt_data, updated_homeDB, modify_pc>>

vars == <<isotopeVars, shuffleVars, csvVars, mergeVars, modifyVars>>

\* the variables of the other programs, which a step of the isotope
\* functions leaves alone
otherPrograms == <<shuffleVars, csvVars, mergeVars, modifyVars>>

\* the variables that a step of randomisation.py leaves alone
notShuffle == <<isotopeVars, csvVars, mergeVars, modifyVars>>

\* the variables that a step of CSVs_for_MSP_format.py leaves alone
notCsv == <<isotopeVars, shuffleVars, mergeVars, modifyVars>>

\* the variables that the merging part of MSPDB_merging.py leaves alone
notMerge == <<isotopeVars, shuffleVars, csvVars, modifyVars>>

\* the variables that a call of modify_txt_file leaves alone
notModify == <<isotopeVars, shuffleVars, csvVars, mergeVars>>

\* the variables of the module-level execution other than the table
executionVars == <<formula, pc, composition,
                   probability_m1, probability, probability_m3, raised>>

----------------------------------------------------------------------------
(* Bounds of the checked input space *)

\* longest formula string drawn from Alphabet
MaxLen == 3
\* largest atom counts of the rendered C/H/N/O formulas
MaxC == 12
MaxH == 2
MaxN == 2
MaxO == 61
\* largest total atom count for which the ensemble polynomial is compared
MaxAtoms == 3
\* number of threads that call the functions concurrently
NumThreads == 2
\* largest number of rows and of columns of the table that is shuffled
MaxRows == 3
MaxCols == 2
\* largest number of DataFrames, and of rows of all DataFrames together
MaxDfs == 2
MaxCsvRows == 3
\* largest number of entries of an MSP file
MaxEntries == 2

----------------------------------------------------------------------------
(* Character classes of the regular expression *)

UpperChars == {"A","B","C","D","E","F","G","H","I","J","K","L","M",
               "N","O","P","Q","R","S","T","U","V","W","X","Y","Z"}

LowerChars == {"a","b","c","d","e","f","g","h","i","j","k","l","m",
               "n","o","p","q","r","s","t","u","v","w","x","y","z"}

DigitSeq == <<"0","1","2","3","4","5","6","7","8","9">>

DigitChars == {DigitSeq[i] : i \in 1..10}

DigitVal(c) == (CHOOSE i \in 1..10 : DigitSeq[i] = c) - 1

----------------------------------------------------------------------------
(* Exact arithmetic on limb sequences *)

Base == 1000

\* number of limbs of 10^18
ScaleLimbs == 6

RECURSIVE BigOf(_)
BigOf(n) == IF n = 0 THEN << >> ELSE <<n % Base>> \o BigOf(n \div Base)

RECURSIVE BigAddC(_, _, _)
BigAddC(a, b, c) ==
    IF a = << >> /\ b = << >> THEN BigOf(c)
    ELSE LET x == IF a = << >> THEN 0 ELSE Head(a)
             y == IF b = << >> THEN 0 ELSE Head(b)
             s == x + y + c
         IN  IF b = << >> /\ c = 0 THEN a
             ELSE IF a = << >> /\ c = 0 THEN b
             ELSE <<s % Base>> \o BigAddC(IF a = << >> THEN a ELSE Tail(a),
                                          IF b = << >> THEN b ELSE Tail(b),
                                          s \div Base)

BigAdd(a, b) == BigAddC(a, b, 0)

\* a * k for a native k with k * Base below 2^31
RECURSIVE BigMulSmallC(_, _, _)
BigMulSmallC(a, k, c) ==
    IF a = << >> THEN BigOf(c)
    ELSE LET s == Head(a) * k + c
         IN  <<s % Base>> \o BigMulSmallC(Tail(a), k, s \div Base)

BigMulSmall(a, k) == IF k = 0 THEN << >> ELSE BigMulSmallC(a, k, 0)

BigShift(a) == IF a = << >> THEN a ELSE <<0>> \o a

RECURSIVE BigMul(_, _)
BigMul(a, b) ==
    IF a = << >> \/ b = << >> THEN << >>
    ELSE BigAdd(BigMulSmall(b, Head(a)), BigShift(BigMul(Tail(a), b)))

\* TRUE iff a < b
RECURSIVE BigLessFrom(_, _, _)
BigLessFrom(a, b, i) ==
    IF i = 0 THEN FALSE
    ELSE IF a[i] # b[i] THEN a[i] < b[i]
    ELSE BigLessFrom(a, b, i - 1)

BigLess(a, b) ==
    IF Len(a) # Len(b) THEN Len(a) < Len(b) ELSE BigLessFrom(a, b, Len(a))

\* floor(a / k) for a native k with k * Base below 2^31
RECURSIVE BigDivSmallFrom(_, _, _, _)
BigDivSmallFrom(a, k, i, r) ==
    IF i = 0 THEN << >>
    ELSE LET cur  == r * Base + a[i]
             rest == BigDivSmallFrom(a, k, i - 1, cur % k)
         IN  rest \o <<cur \div k>>

RECURSIVE BigTrim(_)
BigTrim(a) ==
    IF a = << >> THEN a
    ELSE IF a[Len(a)] = 0 THEN BigTrim(SubSeq(a, 1, Len(a) - 1))
    ELSE a

BigDivSmall(a, k) == BigTrim(BigDivSmallFrom(a, k, Len(a), 0))

\* the real number k (a native integer)
RealOfInt(k) == IF k = 0 THEN << >> ELSE [i \in 1..ScaleLimbs |-> 0] \o BigOf(k)

\* the real number m * 10^-6 (m a native integer)
RealOfMicro(m) == IF m = 0 THEN << >> ELSE <<0, 0, 0, 0>> \o BigOf(m)

\* product of two reals
RealMul(a, b) ==
    LET p == BigMul(a, b)
    IN  IF Len(p) <= ScaleLimbs THEN << >>
        ELSE SubSeq(p, ScaleLimbs + 1, Len(p))

\* math.comb(n, k), a Python int
RECURSIVE comb(_, _)
comb(n, k) ==
    IF k > n THEN << >>
    ELSE IF k = 0 THEN BigOf(1)
    ELSE BigDivSmall(BigMulSmall(comb(n, k - 1), n - k + 1), k)

\* int * float for a Python int held as a limb sequence
IntMul(c, r) == BigMul(c, r)

\* int * float for a native integer (an atom count)
Times(k, r) == BigMulSmall(r, k)

\* float ** 2 and float ** 3
Pow(r, e) == IF e = 2 THEN RealMul(r, r) ELSE RealMul(RealMul(r, r), r)

----------------------------------------------------------------------------
(* isotopic_abundances, lines 40-45: each entry is the literal divided by  *)
(* 100, in units of 10^-6                                                  *)

IsotopeTable ==
    [C |-> [p |-> 10700, n |-> 988910],
     H |-> [p |-> 156, n |-> 999844],
     N |-> [p |-> 3650, n |-> 996350],
     O |-> [p1 |-> 370, p2 |-> 2040, n |-> 997590]]

----------------------------------------------------------------------------
(* parse_formula *)

\* first index >= i of s whose character is not in class (Len(s)+1 if none)
RECURSIVE SkipClass(_, _, _)
SkipClass(s, i, class) ==
    IF i > Len(s) THEN i
    ELSE IF s[i] \in class THEN SkipClass(s, i + 1, class)
    ELSE i

\* findall with the count group written (\d?): at most one digit is matched
RECURSIVE findall_one_digit(_, _)
findall_one_digit(s, i) ==
    IF i > Len(s) THEN << >>
    ELSE IF s[i] \in UpperChars
         THEN LET j == SkipClass(s, i + 1, LowerChars)
                  k == IF j <= Len(s) /\ s[j] \in DigitChars THEN j + 1 ELSE j
              IN  << <<SubSeq(s, i, j - 1), SubSeq(s, j, k - 1)>> >>
                    \o findall_one_digit(s, k)
         ELSE findall_one_digit(s, i + 1)

\* re.findall(r'([A-Z][a-z]*)(\d*)', s) scanning from index i:
\* the list of (elem, count) group pairs of the non-overlapping matches
RECURSIVE findall(_, _)
findall(s, i) ==
    IF i > Len(s) THEN << >>
    ELSE IF s[i] \in UpperChars
         THEN LET j == SkipClass(s, i + 1, LowerChars)
                  k == SkipClass(s, j, DigitChars)
              IN  << <<SubSeq(s, i, j - 1), SubSeq(s, j, k - 1)>> >>
                    \o findall(s, k)
         ELSE findall(s, i + 1)

\* int(count) for a string of decimal digits
RECURSIVE int(_)
int(count) ==
    IF count = << >> THEN 0
    ELSE 10 * int(SubSeq(count, 1, Len(count) - 1)) + DigitVal(count[Len(count)])

\* CountOf with the default written 0: int(count) if count else 0
CountOf_default_zero(count) == IF count # << >> THEN int(count) ELSE 0

\* CountOf written int(count) or 1 when count is not empty
CountOf_zero_as_one(count) ==
    IF count # << >> /\ int(count) # 0 THEN int(count) ELSE 1

\* int(count) if count else 1
CountOf(count) == IF count # << >> THEN int(count) ELSE 1

\* the dict comprehension: one key per distinct elem, and the value of a
\* key is that of the last pair that has it
DictOf(elements) ==
    [elem \in {elements[i][1] : i \in 1..Len(elements)} |->
        LET last == CHOOSE i \in 1..Len(elements) :
                        /\ elements[i][1] = elem
                        /\ \A j \in (i + 1)..Len(elements) : elements[j][1] # elem
        IN  CountOf(elements[last][2])]

parse_formula(f) == DictOf(findall(f, 1))

\* composition.get(key, 0)
Get(comp, key) == IF key \in DOMAIN comp THEN comp[key] ELSE 0

----------------------------------------------------------------------------
(* The three probability functions.  tab is the value of the global table. *)

Zero == << >>

RECURSIVE Sum(_)
Sum(terms) == IF terms = << >> THEN Zero ELSE BigAdd(Head(terms), Sum(Tail(terms)))

\* a term added to the running sum only under its if
When(cond, term) == IF cond THEN term ELSE Zero

C_key == <<"C">>
H_key == <<"H">>
N_key == <<"N">>
O_key == <<"O">>

\* isotopic_abundances['C']['p'] and the other table reads
P_C13_of(tab) == RealOfMicro(tab.C.p)
P_H2_of(tab)  == RealOfMicro(tab.H.p)
\* P_N15 read from the hydrogen entry
P_N15_of_hydrogen(tab) == RealOfMicro(tab.H.p)

P_N15_of(tab) == RealOfMicro(tab.N.p)
P_O17_of(tab) == RealOfMicro(tab.O.p1)
\* P_O18 read from the O-17 entry
P_O18_of_p1(tab) == RealOfMicro(tab.O.p1)

P_O18_of(tab) == RealOfMicro(tab.O.p2)

\* calculate_m_plus_1_probability returning P_M1, not P_M1*100
calculate_m_plus_1_probability_no_percent(f, tab) ==
    LET comp  == parse_formula(f)
        x     == Get(comp, C_key)
        y     == Get(comp, H_key)
        w     == Get(comp, N_key)
        z     == Get(comp, O_key)
    IN  Sum(<< Times(x, P_C13_of(tab)), Times(y, P_H2_of(tab)),
               Times(w, P_N15_of(tab)), Times(z, P_O17_of(tab)) >>)

\* body of calculate_m_plus_1_probability after the composition is parsed
m_plus_1_of_composition(comp, tab) ==
    LET x     == Get(comp, C_key)
        y     == Get(comp, H_key)
        w     == Get(comp, N_key)
        z     == Get(comp, O_key)
        P_C13 == P_C13_of(tab)
        P_H2  == P_H2_of(tab)
        P_N15 == P_N15_of(tab)
        P_O17 == P_O17_of(tab)
        P_M1  == Sum(<< Times(x, P_C13), Times(y, P_H2),
                        Times(w, P_N15), Times(z, P_O17) >>)
    IN  BigMulSmall(P_M1, 100)

\* body of calculate_m_plus_2_probability after the composition is parsed
m_plus_2_of_composition(comp, tab) ==
    LET x     == Get(comp, C_key)
        y     == Get(comp, H_key)
        w     == Get(comp, N_key)
        z     == Get(comp, O_key)
        P_C13 == P_C13_of(tab)
        P_H2  == P_H2_of(tab)
        P_N15 == P_N15_of(tab)
        P_O17 == P_O17_of(tab)
        P_O18 == P_O18_of(tab)
        P_M2  == Sum(<<
            \* Case 1: two heavy isotopes of the same type
            When(x >= 2, IntMul(comb(x, 2), Pow(P_C13, 2))),
            When(y >= 2, IntMul(comb(y, 2), Pow(P_H2, 2))),
            When(w >= 2, IntMul(comb(w, 2), Pow(P_N15, 2))),
            When(z >= 2, IntMul(comb(z, 2), Pow(P_O17, 2))),
            \* Case 2: one heavy isotope of one type and one of another
            When(x >= 1 /\ y >= 1, RealMul(Times(y, Times(x, P_C13)), P_H2)),
            When(x >= 1 /\ w >= 1, RealMul(Times(w, Times(x, P_C13)), P_N15)),
            When(x >= 1 /\ z >= 1, RealMul(Times(z, Times(x, P_C13)), P_O17)),
            When(y >= 1 /\ w >= 1, RealMul(Times(w, Times(y, P_H2)), P_N15)),
            When(y >= 1 /\ z >= 1, RealMul(Times(z, Times(y, P_H2)), P_O17)),
            When(w >= 1 /\ z >= 1, RealMul(Times(z, Times(w, P_N15)), P_O17)),
            \* Case 3: one O-18
            When(z >= 1, Times(z, P_O18)) >>)
    IN  BigMulSmall(P_M2, 100)

\* body of calculate_m_plus_3_probability after the composition is parsed
m_plus_3_of_composition(comp, tab) ==
    LET x     == Get(comp, C_key)
        y     == Get(comp, H_key)
        w     == Get(comp, N_key)
        z     == Get(comp, O_key)
        P_C13 == P_C13_of(tab)
        P_H2  == P_H2_of(tab)
        P_N15 == P_N15_of(tab)
        P_O17 == P_O17_of(tab)
        P_O18 == P_O18_of(tab)
        C2    == IntMul(comb(x, 2), Pow(P_C13, 2))
        H2    == IntMul(comb(y, 2), Pow(P_H2, 2))
        N2    == IntMul(comb(w, 2), Pow(P_N15, 2))
        O2    == IntMul(comb(z, 2), Pow(P_O17, 2))
        P_M3  == Sum(<<
            \* Case 1: three of the same isotope
            When(x >= 3, IntMul(comb(x, 3), Pow(P_C13, 3))),
            When(y >= 3, IntMul(comb(y, 3), Pow(P_H2, 3))),
            When(w >= 3, IntMul(comb(w, 3), Pow(P_N15, 3))),
            When(z >= 3, IntMul(comb(z, 3), Pow(P_O17, 3))),
            \* Case 2: two of one isotope and one of another
            When(x >= 2 /\ y >= 1, RealMul(Times(y, C2), P_H2)),
            When(x >= 2 /\ w >= 1, RealMul(Times(w, C2), P_N15)),
            When(x >= 2 /\ z >= 1, RealMul(Times(z, C2), P_O17)),
            When(y >= 2 /\ x >= 1, RealMul(Times(x, H2), P_C13)),
            When(y >= 2 /\ w >= 1, RealMul(Times(w, H2), P_N15)),
            When(y >= 2 /\ z >= 1, RealMul(Times(z, H2), P_O17)),
            When(w >= 2 /\ x >= 1, RealMul(Times(x, N2), P_C13)),
            When(w >= 2 /\ y >= 1, RealMul(Times(y, N2), P_H2)),
            When(w >= 2 /\ z >= 1, RealMul(Times(z, N2), P_O17)),
            When(z >= 2 /\ x >= 1, RealMul(Times(x, O2), P_C13)),
            When(z >= 2 /\ y >= 1, RealMul(Times(y, O2), P_H2)),
            When(z >= 2 /\ w >= 1, RealMul(Times(w, O2), P_N15)),
            \* Case 3: one of each of three different isotopes
            RealMul(Times(w, RealMul(Times(y, Times(x, P_C13)), P_H2)), P_N15),
            RealMul(Times(z, RealMul(Times(y, Times(x, P_C13)), P_H2)), P_O17),
            RealMul(Times(z, RealMul(Times(w, Times(x, P_C13)), P_N15)), P_O17),
            RealMul(Times(z, RealMul(Times(w, Times(y, P_H2)), P_N15)), P_O17),
            \* Case 4: one O-18 paired with one of another isotope
            When(x >= 1, RealMul(Times(z, Times(x, P_C13)), P_O18)),
            When(y >= 1, RealMul(Times(z, Times(y, P_H2)), P_O18)),
            When(w >= 1, RealMul(Times(z, Times(w, P_N15)), P_O18)),
            When(z >= 2, RealMul(IntMul(comb(z, 2), P_O17), P_O18)) >>)
    IN  BigMulSmall(P_M3, 100)

calculate_m_plus_1_probability(f, tab) ==
    m_plus_1_of_composition(parse_formula(f), tab)

calculate_m_plus_2_probability(f, tab) ==
    m_plus_2_of_composition(parse_formula(f), tab)

calculate_m_plus_3_probability(f, tab) ==
    m_plus_3_of_composition(parse_formula(f), tab)

----------------------------------------------------------------------------
(* Inputs *)

\* characters of the drawn strings: the four table elements, an element
\* that is not in the table, a lower-case letter and four digits
Alphabet == {"C", "H", "N", "O", "S", "a", "0", "1", "2", "9"}

ShortStrings == UNION {[1..n -> Alphabet] : n \in 0..MaxLen}

\* decimal digits of a positive integer
RECURSIVE Decimal(_)
Decimal(n) ==
    IF n < 10 THEN <<DigitSeq[n + 1]>>
    ELSE Decimal(n \div 10) \o <<DigitSeq[(n % 10) + 1]>>

\* an element's token as chemists write it: nothing for 0 atoms, the bare
\* symbol for 1 atom, the symbol and the count otherwise
Token(sym, n) ==
    IF n = 0 THEN << >> ELSE IF n = 1 THEN <<sym>> ELSE <<sym>> \o Decimal(n)

Render(x, y, w, z) == Token("C", x) \o Token("H", y) \o Token("N", w) \o Token("O", z)

RenderedFormulas ==
    {Render(x, y, w, z) : x \in 0..MaxC, y \in 0..MaxH, w \in 0..MaxN, z \in 0..MaxO}

\* the formula of the module-level execution, line 236
ReferenceFormula == <<"C","2","3","H","4","5","N","O","4">>

\* a rendered formula followed by the token "E0" of an element it lacks
ZeroTokenFormulas ==
    {Render(0, y, w, z) \o <<"C", "0">> : y \in 0..MaxH, w \in 0..MaxN, z \in 0..MaxO}
    \cup
    {Render(x, 0, w, z) \o <<"H", "0">> : x \in 0..MaxC, w \in 0..MaxN, z \in 0..MaxO}
    \cup
    {Render(x, y, 0, z) \o <<"N", "0">> : x \in 0..MaxC, y \in 0..MaxH, z \in 0..MaxO}
    \cup
    {Render(x, y, w, 0) \o <<"O", "0">> : x \in 0..MaxC, y \in 0..MaxH, w \in 0..MaxN}

Formulas == ShortStrings \cup RenderedFormulas \cup ZeroTokenFormulas
                \cup {ReferenceFormula}

----------------------------------------------------------------------------
(* State machine: lines 235-245 *)

\* value of a result variable that has not been assigned
Unset == <<-1>>

\* randomisation.py has not been run
ShuffleIdle ==
    /\ excel_file = << >>
    /\ shuffled_table_with_index = << >>
    /\ randomised_file = << >>
    /\ json_file = << >>
    /\ recovered_file = << >>
    /\ gui_pc = "idle"

\* the merging part of MSPDB_merging.py is not run
MergeIdle ==
    /\ MSP1 = << >>
    /\ MSP2 = << >>
    /\ MSP3 = << >>
    /\ homDB_data = << >>
    /\ POS_data = << >>
    /\ NEG_data = << >>
    /\ Home_POS_data = << >>
    /\ total_data = << >>
    /\ merge_pc = "idle"

\* modify_txt_file is not called
ModifyIdle ==
    /\ homDB_text = << >>
    /\ table_df = << >>
    /\ txt_data = << >>
    /\ updated_homeDB = << >>
    /\ modify_pc = [phase |-> "idle", idx |-> 0]

\* CSVs_for_MSP_format.py is not run
CsvIdle ==
    /\ dfs = << >>
    /\ output_lines = << >>
    /\ HomeDB_MS2 = << >>
    /\ csv_pc = [phase |-> "idle", df |-> 0, row |-> 0]

Init ==
    /\ ShuffleIdle
    /\ CsvIdle
    /\ MergeIdle
    /\ ModifyIdle
    /\ formula \in Formulas
    /\ isotopic_abundances = IsotopeTable
    /\ pc = "m1"
    /\ composition = << >>
    /\ probability_m1 = Unset
    /\ probability = Unset
    /\ probability_m3 = Unset
    /\ raised = "None"
    /\ calls = << >>

\* line 237
call_m_plus_1 ==
    /\ pc = "m1"
    /\ composition' = parse_formula(formula)
    /\ probability_m1' = calculate_m_plus_1_probability(formula, isotopic_abundances)
    /\ raised' = "None"
    /\ pc' = "m2"
    /\ UNCHANGED <<formula, isotopic_abundances, probability, probability_m3, calls>>
    /\ UNCHANGED otherPrograms

\* line 240
call_m_plus_2 ==
    /\ pc = "m2"
    /\ composition' = parse_formula(formula)
    /\ probability' = calculate_m_plus_2_probability(formula, isotopic_abundances)
    /\ raised' = "None"
    /\ pc' = "m3"
    /\ UNCHANGED <<formula, isotopic_abundances, probability_m1, probability_m3, calls>>
    /\ UNCHANGED otherPrograms

\* line 244
call_m_plus_3 ==
    /\ pc = "m3"
    /\ composition' = parse_formula(formula)
    /\ probability_m3' = calculate_m_plus_3_probability(formula, isotopic_abundances)
    /\ raised' = "None"
    /\ pc' = "done"
    /\ UNCHANGED <<formula, isotopic_abundances, probability_m1, probability, calls>>
    /\ UNCHANGED otherPrograms

Next == call_m_plus_1 \/ call_m_plus_2 \/ call_m_plus_3

Spec == Init /\ [][Next]_vars

TypeOK ==
    /\ pc \in {"m1", "m2", "m3", "done"}
    /\ raised = "None"

----------------------------------------------------------------------------
(* Concurrent calls: each thread calls parse_formula or one of the three   *)
(* probability functions on a formula, any number of times.  A call is a   *)
(* sequence of steps on its own local variables; the only global it        *)
(* touches is isotopic_abundances.                                         *)

Threads == 1..NumThreads

CallFunctions == {"parse_formula", "calculate_m_plus_1_probability",
                  "calculate_m_plus_2_probability",
                  "calculate_m_plus_3_probability"}

CallFormulas == { <<"C", "2">>, <<"H", "2", "O", "2">>, ReferenceFormula }

\* a call that has just been entered
NewCall(fn, f) ==
    [fn |-> fn, formula |-> f, pc |-> "parse",
     composition |-> << >>, table |-> << >>, result |-> Unset]

\* composition kept in one module-level name that every thread assigns
CompositionOf_shared(c, t) == c[1].composition

\* the composition the call of thread t computes with: its own local
CompositionOf(c, t) == c[t].composition

\* the values the call reads from the table use the thread's own reads
TableOf(c, t) == c[t].table

InitCalls ==
    /\ ShuffleIdle
    /\ CsvIdle
    /\ MergeIdle
    /\ ModifyIdle
    /\ calls \in [Threads -> {NewCall(fn, f) : fn \in CallFunctions, f \in CallFormulas}]
    /\ isotopic_abundances = IsotopeTable
    /\ formula = ReferenceFormula
    /\ pc = "m1"
    /\ composition = << >>
    /\ probability_m1 = Unset
    /\ probability = Unset
    /\ probability_m3 = Unset
    /\ raised = "None"

\* lines 59-60 (parse_formula) or lines 73, 107, 165 (composition = ...)
call_parse(t) ==
    /\ calls[t].pc = "parse"
    /\ LET comp == parse_formula(calls[t].formula)
       IN  calls' = [calls EXCEPT ![t] =
               IF calls[t].fn = "parse_formula"
               THEN [@ EXCEPT !.composition = comp, !.result = comp,
                              !.pc = "returned"]
               ELSE [@ EXCEPT !.composition = comp, !.pc = "read"]]
    /\ UNCHANGED <<isotopic_abundances, executionVars, otherPrograms>>

\* call_read with P_O18 stored into the O-17 entry of the table
call_read_writes_table(t) ==
    /\ calls[t].pc = "read"
    /\ calls' = [calls EXCEPT ![t] =
           [@ EXCEPT !.table = isotopic_abundances, !.pc = "compute"]]
    /\ isotopic_abundances' =
           [isotopic_abundances EXCEPT !.O.p1 = isotopic_abundances.O.p2]
    /\ UNCHANGED <<executionVars, otherPrograms>>

\* lines 80-83, 114-118, 172-176: the reads of isotopic_abundances
call_read(t) ==
    /\ calls[t].pc = "read"
    /\ calls' = [calls EXCEPT ![t] =
           [@ EXCEPT !.table = isotopic_abundances, !.pc = "compute"]]
    /\ UNCHANGED <<isotopic_abundances, executionVars, otherPrograms>>

\* lines 86-93, 120-150, 178-232: the sum and the return
call_return(t) ==
    /\ calls[t].pc = "compute"
    /\ LET comp == CompositionOf(calls, t)
           tab  == TableOf(calls, t)
           res  == IF calls[t].fn = "calculate_m_plus_1_probability"
                   THEN m_plus_1_of_composition(comp, tab)
                   ELSE IF calls[t].fn = "calculate_m_plus_2_probability"
                   THEN m_plus_2_of_composition(comp, tab)
                   ELSE m_plus_3_of_composition(comp, tab)
       IN  calls' = [calls EXCEPT ![t] =
               [@ EXCEPT !.result = res, !.pc = "returned"]]
    /\ UNCHANGED <<isotopic_abundances, executionVars, otherPrograms>>

\* the thread makes its next call
call_again(t) ==
    /\ calls[t].pc = "returned"
    /\ \E fn \in CallFunctions, f \in CallFormulas :
           calls' = [calls EXCEPT ![t] = NewCall(fn, f)]
    /\ UNCHANGED <<isotopic_abundances, executionVars, otherPrograms>>

NextCalls ==
    \E t \in Threads :
        call_parse(t) \/ call_read(t) \/ call_return(t) \/ call_again(t)

SpecCalls == InitCalls /\ [][NextCalls]_vars

----------------------------------------------------------------------------
(* randomisation.py: a run of gui_interaction that shuffles the table of   *)
(* an Excel file, then a run that recovers the original order from the     *)
(* randomised file, to which columns may have been appended in between.    *)
(* A table is a sequence of rows and a row a sequence of cells.            *)

CellValues == {10, 20}

ExtraValues == {7, 8}

Tables ==
    UNION {[1..n -> [1..m -> CellValues]] : n \in 1..MaxRows, m \in 1..MaxCols}

\* the orders random.shuffle can leave a list of n items in
Shuffles(n) == {f \in [1..n -> 1..n] : \A i, j \in 1..n : f[i] = f[j] => i = j}

\* str(i) for an index
str(i) == Decimal(i)

\* the isotope functions are not run
IsotopeIdle ==
    /\ formula = ReferenceFormula
    /\ isotopic_abundances = IsotopeTable
    /\ pc = "done"
    /\ composition = << >>
    /\ probability_m1 = Unset
    /\ probability = Unset
    /\ probability_m3 = Unset
    /\ raised = "None"
    /\ calls = << >>

InitShuffle ==
    /\ IsotopeIdle
    /\ CsvIdle
    /\ MergeIdle
    /\ ModifyIdle
    /\ excel_file \in Tables
    /\ shuffled_table_with_index = << >>
    /\ randomised_file = << >>
    /\ json_file = << >>
    /\ recovered_file = << >>
    /\ gui_pc = "choice"

\* shuffle_table_with_new_index for one outcome of random.shuffle:
\* enumerate pairs each row with its 0-based index
shuffle_table_with_new_index(data, order) ==
    [k \in 1..Len(data) |-> <<order[k] - 1, data[order[k]]>>]

\* lines 95-96 and 136-137: row.insert(0, idx + 1) on the rows of a table
InsertOrder(rows) == [k \in 1..Len(rows) |-> <<k>> \o rows[k]]

\* the rows of table after lines 95-96: the rows of shuffled_table are the
\* row objects of table, so each row of table has got the order number of
\* its place in the shuffled list in front
TableAfterInsert(table, with_index) ==
    [i \in 1..Len(table) |->
        LET k == CHOOSE k \in 1..Len(with_index) : with_index[k][1] = i - 1
        IN  <<k>> \o table[i]]

\* lines 81-108, choice == 'yes'
shuffle_branch ==
    /\ gui_pc = "choice"
    /\ \E order \in Shuffles(Len(excel_file)) :
        LET table          == excel_file
            with_index     == shuffle_table_with_new_index(table, order)
            shuffled_table == [k \in 1..Len(with_index) |-> with_index[k][2]]
            mutated        == TableAfterInsert(table, with_index)
        IN  /\ shuffled_table_with_index' = with_index
            /\ randomised_file' = InsertOrder(shuffled_table)
            /\ json_file' = [key \in {str(i) : i \in 0..(Len(table) - 1)} |->
                                mutated[(CHOOSE i \in 0..(Len(table) - 1) : str(i) = key) + 1]]
    /\ gui_pc' = "shuffled"
    /\ UNCHANGED <<excel_file, recovered_file, notShuffle>>

\* between the runs one column of values is appended to the rows of the
\* randomised file
append_column ==
    /\ gui_pc = "shuffled"
    /\ \E extra \in [1..Len(randomised_file) -> ExtraValues] :
           randomised_file' =
               [k \in 1..Len(randomised_file) |-> randomised_file[k] \o <<extra[k]>>]
    /\ gui_pc' = "extended"
    /\ UNCHANGED <<excel_file, shuffled_table_with_index, json_file,
                   recovered_file, notShuffle>>

\* recover_original_order, lines 23-41
recover_original_order(shuffled_data, original_order) ==
    [k \in 1..Len(shuffled_data) |->
        LET shuffled_row       == shuffled_data[k]
            original_index     == shuffled_row[1]
            original_row       == original_order[str(original_index)]
            additional_columns == SubSeq(shuffled_row[2], Len(original_row) + 1,
                                         Len(shuffled_row[2]))
        IN  original_row \o additional_columns]

\* lines 117-145, choice == 'no', run on the randomised file
recover_branch ==
    /\ gui_pc \in {"shuffled", "extended"}
    /\ LET table           == randomised_file
           original_order  == json_file
           shuffled_data   == [k \in 1..Len(table) |-> <<k - 1, table[k]>>]
           recovered_table == recover_original_order(shuffled_data, original_order)
       IN  recovered_file' = InsertOrder(recovered_table)
    /\ gui_pc' = "recovered"
    /\ UNCHANGED <<excel_file, shuffled_table_with_index, randomised_file,
                   json_file, notShuffle>>

NextShuffle == shuffle_branch \/ append_column \/ recover_branch

SpecShuffle == InitShuffle /\ [][NextShuffle]_vars

----------------------------------------------------------------------------
(* CSVs_for_MSP_format.py: the loop that turns the rows of the DataFrames  *)
(* of dfs into MSP entries. A DataFrame is a sequence of rows; a row is a  *)
(* record of the columns Compound, Peak Label and m/z (Expected). The      *)
(* columns Formula, RT, Charge, Family and Adduct are only copied into     *)
(* header lines and are left out: their header lines hold the field label. *)
(* A line is a sequence of strings, the empty line is << >>, and a text is *)
(* the sequence of its lines.                                              *)

CompoundNames == {"a", "b"}

\* a missing value of a column
NaN == <<"nan">>

PeakLabels == {<<"M", "S", "1">>, <<"F", "1">>, NaN}

\* m/z values, in units of 0.00001
MzValues == {18416000}

CsvRows == [Compound : CompoundNames, PeakLabel : PeakLabels, mz : MzValues]

RowSeqs == UNION {[1..n -> CsvRows] : n \in 0..MaxCsvRows}

\* the ways to cut a sequence of len rows into n DataFrames
Cuts(n, len) ==
    {c \in [0..n -> 0..len] :
        /\ c[0] = 0
        /\ c[n] = len
        /\ \A d \in 1..n : c[d - 1] <= c[d]}

\* the lists of at most MaxDfs DataFrames with at most MaxCsvRows rows in all
DataFrameLists ==
    UNION {UNION {{[d \in 1..n |-> SubSeq(rows, c[d - 1] + 1, c[d])] :
                      c \in Cuts(n, Len(rows))} : n \in 1..MaxDfs} :
           rows \in RowSeqs}

\* df['Peak Label'].str.contains('F', na=False) for one row
contains(label) == label # NaN /\ \E i \in 1..Len(label) : label[i] = "F"

\* line 79
main_entries(df) == SelectSeq(df, LAMBDA r : ~contains(r.PeakLabel))

\* line 92 without the test of the Compound column
num_peaks_rows_any_compound(df, compound_name) ==
    SelectSeq(df, LAMBDA r : contains(r.PeakLabel))

\* line 92
num_peaks_rows(df, compound_name) ==
    SelectSeq(df, LAMBDA r : r.Compound = compound_name /\ contains(r.PeakLabel))

\* f"{x:.5f}" for a value given in units of 0.00001
Fixed5(x) ==
    Decimal(x \div 100000) \o <<".">> \o Tail(Decimal(100000 + (x % 100000)))

\* lines 94-96: the peak lines of a compound
num_peaks(df, compound_name) ==
    LET rows == num_peaks_rows(df, compound_name)
    IN  [k \in 1..Len(rows) |-> Fixed5(rows[k].mz) \o <<"\t", "9", "9", "9">>]

\* "\n".join(num_peaks) as lines: the join of no lines is one empty line
num_peaks_str(peaks) == IF peaks = << >> THEN << << >> >> ELSE peaks

\* lines 98-111: the entry of a main row, as the lines of its text; the
\* text ends with a newline, so its last line is empty
entry(df, main_row) ==
    LET peaks == num_peaks(df, main_row.Compound)
    IN  << <<"NAME: ", main_row.Compound>>,
           <<"PRECURSORMZ: ">> \o Fixed5(main_row.mz),
           <<"PRECURSORTYPE: ">>,
           <<"SMILES: ">>,
           <<"INCHIKEY: ">>,
           <<"FORMULA: ">>,
           <<"RETENTIONTIME: ">>,
           <<"CCS: ">>,
           <<"IONMODE: ">>,
           <<"COMPOUNDCLASS: ">>,
           <<"Comment: theoretical MS2 created from the information of Orbitrap Lipidomics.">>,
           <<"Num Peaks: ">> \o Decimal(Len(peaks)) >>
        \o num_peaks_str(peaks) \o << << >> >>

\* "\n".join(output_lines), as the lines of the text: every entry ends
\* with a newline, so the lines of the entries follow one another
RECURSIVE join(_)
join(entries) ==
    IF entries = << >> THEN << >> ELSE Head(entries) \o join(Tail(entries))

InitCsv ==
    /\ IsotopeIdle
    /\ ShuffleIdle
    /\ MergeIdle
    /\ ModifyIdle
    /\ dfs \in DataFrameLists
    /\ output_lines = << >>
    /\ HomeDB_MS2 = << >>
    /\ csv_pc = [phase |-> "loop", df |-> 1, row |-> 0]

\* lines 81-113: one pass of the inner loop, for the next main row
convert_row ==
    /\ csv_pc.phase = "loop"
    /\ LET df == dfs[csv_pc.df]
       IN  /\ csv_pc.row < Len(main_entries(df))
           /\ output_lines' =
                  Append(output_lines, entry(df, main_entries(df)[csv_pc.row + 1]))
    /\ csv_pc' = [csv_pc EXCEPT !.row = @ + 1]
    /\ UNCHANGED <<dfs, HomeDB_MS2, notCsv>>

\* line 78: the outer loop goes to the next DataFrame
next_df ==
    /\ csv_pc.phase = "loop"
    /\ csv_pc.row = Len(main_entries(dfs[csv_pc.df]))
    /\ csv_pc.df < Len(dfs)
    /\ csv_pc' = [csv_pc EXCEPT !.df = @ + 1, !.row = 0]
    /\ UNCHANGED <<dfs, output_lines, HomeDB_MS2, notCsv>>

\* lines 115-116
write_file ==
    /\ csv_pc.phase = "loop"
    /\ csv_pc.row = Len(main_entries(dfs[csv_pc.df]))
    /\ csv_pc.df = Len(dfs)
    /\ HomeDB_MS2' = join(output_lines)
    /\ csv_pc' = [csv_pc EXCEPT !.phase = "written"]
    /\ UNCHANGED <<dfs, output_lines, notCsv>>

NextCsv == convert_row \/ next_df \/ write_file

SpecCsv == InitCsv /\ [][NextCsv]_vars

----------------------------------------------------------------------------
(* MSPDB_merging.py, pre-processing and merging: the three tables read     *)
(* from the MSP files are pre-processed, MSP1 is merged with MSP2 and the  *)
(* result with MSP3. A table is a sequence of rows, a row a record of the  *)
(* columns, a value a sequence of strings and NaN a missing value. NAME,   *)
(* PRECURSORTYPE and RETENTIONTIME are sequences of characters.            *)

UpperSeq == <<"A","B","C","D","E","F","G","H","I","J","K","L","M",
              "N","O","P","Q","R","S","T","U","V","W","X","Y","Z">>

LowerSeq == <<"a","b","c","d","e","f","g","h","i","j","k","l","m",
              "n","o","p","q","r","s","t","u","v","w","x","y","z">>

\* str.lower()
lower(s) ==
    [i \in 1..Len(s) |->
        IF s[i] \in UpperChars
        THEN LowerSeq[CHOOSE k \in 1..Len(UpperSeq) : UpperSeq[k] = s[i]]
        ELSE s[i]]

\* str.startswith(prefix)
startswith(s, prefix) ==
    Len(s) >= Len(prefix) /\ SubSeq(s, 1, Len(prefix)) = prefix

\* str.replace(r'^prefix', repl, regex=True)
replace_prefix(s, prefix, repl) ==
    IF startswith(s, prefix) THEN repl \o SubSeq(s, Len(prefix) + 1, Len(s)) ELSE s

\* a number, in thousandths
Float(thousandths) == <<"float", thousandths>>

RECURSIVE Pow10(_)
Pow10(n) == IF n = 0 THEN 1 ELSE 10 * Pow10(n - 1)

\* pd.to_numeric(errors='coerce') of one string of digits with at most one
\* point and at most three decimals; any other string of the model's
\* alphabet becomes NaN
to_numeric(s) ==
    LET points == {i \in 1..Len(s) : s[i] = "."}
        digits == {i \in 1..Len(s) : s[i] \in DigitChars}
    IN  IF digits = {} \/ Cardinality(points) > 1
           \/ Cardinality(points) + Cardinality(digits) # Len(s)
        THEN NaN
        ELSE IF points = {} THEN Float(int(s) * Pow10(3))
        ELSE LET p    == CHOOSE i \in points : TRUE
                 whole == SubSeq(s, 1, p - 1)
                 frac  == SubSeq(s, p + 1, Len(s))
             IN  Float((IF whole = << >> THEN 0 ELSE int(whole)) * Pow10(3)
                       + (IF frac = << >> THEN 0
                          ELSE int(frac) * Pow10(3 - Len(frac))))

\* lines 229-232, 236-239, 243-246 for one table
pre_process(data, prefix) ==
    [k \in 1..Len(data) |->
        [data[k] EXCEPT
            !.NAME = lower(replace_prefix(@, prefix, <<"C", "a", "r">>)),
            !.PRECURSORTYPE = IF startswith(@, <<"[", "M">>) THEN @ ELSE NaN,
            !.RETENTIONTIME = to_numeric(@)]]

Carnitine == <<"C", "a", "r", "n", "i", "t", "i", "n", "e">>

CAR == <<"C", "A", "R">>

\* the order of the characters of names
AsciiOrder == DigitSeq \o UpperSeq \o LowerSeq

ord(c) == CHOOSE k \in 1..Len(AsciiOrder) : AsciiOrder[k] = c

\* the lexicographic order of the merge keys
RECURSIVE NameLeq(_, _)
NameLeq(a, b) ==
    IF a = << >> THEN TRUE
    ELSE IF b = << >> THEN FALSE
    ELSE IF Head(a) = Head(b) THEN NameLeq(Tail(a), Tail(b))
    ELSE ord(Head(a)) < ord(Head(b))

RECURSIVE SortedKeys(_)
SortedKeys(S) ==
    IF S = {} THEN << >>
    ELSE LET m == CHOOSE m \in S : \A o \in S : NameLeq(m, o)
         IN  <<m>> \o SortedKeys(S \ {m})

Keys(data) == {data[k].NAME : k \in 1..Len(data)}

\* the columns of a table in a merged row that has no row of that table
NaNRow == [NAME |-> NaN, PRECURSORMZ |-> NaN, PRECURSORTYPE |-> NaN,
           RETENTIONTIME |-> NaN, IONMODE |-> NaN]

\* the merged rows of one key: every pair of a left and a right row with
\* the key, or the rows of one side beside missing values
KeyRows(ls, rs, key) ==
    IF ls = << >>
    THEN [k \in 1..Len(rs) |-> [NAME |-> key, left |-> NaNRow, right |-> rs[k]]]
    ELSE IF rs = << >>
    THEN [k \in 1..Len(ls) |-> [NAME |-> key, left |-> ls[k], right |-> NaNRow]]
    ELSE [k \in 1..(Len(ls) * Len(rs)) |->
             [NAME  |-> key,
              left  |-> ls[((k - 1) \div Len(rs)) + 1],
              right |-> rs[((k - 1) % Len(rs)) + 1]]]

RECURSIVE MergeKeys(_, _, _)
MergeKeys(left, right, keys) ==
    IF keys = << >> THEN << >>
    ELSE KeyRows(SelectSeq(left, LAMBDA r : r.NAME = Head(keys)),
                 SelectSeq(right, LAMBDA r : r.NAME = Head(keys)),
                 Head(keys))
         \o MergeKeys(left, right, Tail(keys))

\* pd.merge(left, right, on='NAME', how='outer', suffixes=...)
merge(left, right) ==
    MergeKeys(left, right, SortedKeys(Keys(left) \cup Keys(right)))

\* a.where(a.notna(), b) with the two columns the other way round
where_notna_left_first(a, b) == IF b # NaN THEN b ELSE a

\* a.where(a.notna(), b) for one row
where_notna(a, b) == IF a # NaN THEN a ELSE b

\* lines 260-269 and 281-290: the columns kept of a merged table, whose
\* right side is the table with priority (suffix _HOM)
priority_columns(merged_data) ==
    [k \in 1..Len(merged_data) |->
        LET row == merged_data[k]
        IN  [NAME          |-> row.NAME,
             PRECURSORMZ   |-> where_notna(row.right.PRECURSORMZ, row.left.PRECURSORMZ),
             RETENTIONTIME |-> row.right.RETENTIONTIME,
             PRECURSORTYPE |-> row.right.PRECURSORTYPE,
             IONMODE       |-> where_notna(row.right.IONMODE, row.left.IONMODE)]]

\* the names of the compounds of the files
MspNames == {<<"P", "C">>, Carnitine, CAR}

\* the values an entry of MSP1, of MSP2 and of MSP3 can hold; "N/A" is
\* what the readers store for a field they do not find
NotAvailable == <<"N", "/", "A">>

Msp1Values ==
    { [PRECURSORMZ |-> <<"1.5">>, PRECURSORTYPE |-> <<"[", "M", "+", "H", "]", "+">>,
       RETENTIONTIME |-> <<"5", ".", "2">>, IONMODE |-> <<"Positive">>],
      [PRECURSORMZ |-> NotAvailable, PRECURSORTYPE |-> <<"M", "+", "H">>,
       RETENTIONTIME |-> NotAvailable, IONMODE |-> NotAvailable] }

Msp2Values ==
    { [PRECURSORMZ |-> <<"2.5">>, PRECURSORTYPE |-> <<"[", "M", "+", "N", "a", "]", "+">>,
       RETENTIONTIME |-> <<"7">>, IONMODE |-> <<"Positive">>] }

Msp3Values ==
    { [PRECURSORMZ |-> <<"3.5">>, PRECURSORTYPE |-> <<"[", "M", "-", "H", "]", "-">>,
       RETENTIONTIME |-> <<"9", ".", "2", "5">>, IONMODE |-> <<"Negative">>] }

MspRow(name, v) ==
    [NAME |-> name, PRECURSORMZ |-> v.PRECURSORMZ, PRECURSORTYPE |-> v.PRECURSORTYPE,
     RETENTIONTIME |-> v.RETENTIONTIME, IONMODE |-> v.IONMODE]

\* the tables of at most MaxEntries rows with different names
MspTables(values) ==
    UNION {{t \in [1..n -> {MspRow(name, v) : name \in MspNames, v \in values}] :
               \A i, j \in 1..n : t[i].NAME = t[j].NAME => i = j} :
           n \in 0..MaxEntries}

\* lines 77-223: the three tables as read from the files
InitMerge ==
    /\ IsotopeIdle
    /\ ShuffleIdle
    /\ CsvIdle
    /\ ModifyIdle
    /\ MSP1 \in MspTables(Msp1Values)
    /\ MSP2 \in MspTables(Msp2Values)
    /\ MSP3 \in MspTables(Msp3Values)
    /\ homDB_data = MSP1
    /\ POS_data = MSP2
    /\ NEG_data = MSP3
    /\ Home_POS_data = << >>
    /\ total_data = << >>
    /\ merge_pc = "read"

\* lines 227-246
pre_processing ==
    /\ merge_pc = "read"
    /\ homDB_data' = pre_process(homDB_data, Carnitine)
    /\ POS_data' = pre_process(POS_data, CAR)
    /\ NEG_data' = pre_process(NEG_data, CAR)
    /\ merge_pc' = "pre-processed"
    /\ UNCHANGED <<MSP1, MSP2, MSP3, Home_POS_data, total_data, notMerge>>

\* lines 250-269
merge_home_pos ==
    /\ merge_pc = "pre-processed"
    /\ Home_POS_data' = priority_columns(merge(POS_data, homDB_data))
    /\ merge_pc' = "home-pos"
    /\ UNCHANGED <<MSP1, MSP2, MSP3, homDB_data, POS_data, NEG_data, total_data,
                   notMerge>>

\* lines 271-290
merge_total ==
    /\ merge_pc = "home-pos"
    /\ total_data' = priority_columns(merge(NEG_data, Home_POS_data))
    /\ merge_pc' = "merged"
    /\ UNCHANGED <<MSP1, MSP2, MSP3, homDB_data, POS_data, NEG_data, Home_POS_data,
                   notMerge>>

NextMerge == pre_processing \/ merge_home_pos \/ merge_total

SpecMerge == InitMerge /\ [][NextMerge]_vars

----------------------------------------------------------------------------
(* MSPDB_merging.py, modify_txt_file: the entries of the MSP file are      *)
(* parsed into txt_data, updated or created from the rows of the table and *)
(* written out. A text is a sequence of tokens: words, and the whitespace  *)
(* characters " ", "\n" and "\t". A dictionary that keeps the order of     *)
(* insertion is a sequence of records [name, data].                        *)

Whitespace == {" ", "\n", "\t"}

\* the places of a sequence
Places(seq) == [i \in 1..Len(seq) |-> i]

\* re.sub(r'\s+', ' ', text): of every run of whitespace the last character
\* is kept, as a space
normalize_whitespace(text) ==
    LET kept == SelectSeq(Places(text),
                          LAMBDA i : \/ text[i] \notin Whitespace
                                     \/ i = Len(text)
                                     \/ text[i + 1] \notin Whitespace)
    IN  [k \in 1..Len(kept) |->
            IF text[kept[k]] \in Whitespace THEN " " ELSE text[kept[k]]]

\* the places where sep occurs in text; no separator of the program can
\* overlap another occurrence of itself
Occurrences(text, sep) ==
    SelectSeq(Places(text),
              LAMBDA i : /\ i + Len(sep) - 1 <= Len(text)
                         /\ SubSeq(text, i, i + Len(sep) - 1) = sep)

\* text.split(sep): the pieces between the occurrences of sep
split(text, sep) ==
    LET at == Occurrences(text, sep)
    IN  [k \in 1..(Len(at) + 1) |->
            SubSeq(text,
                   IF k = 1 THEN 1 ELSE at[k - 1] + Len(sep),
                   IF k > Len(at) THEN Len(text) ELSE at[k] - 1)]

\* line.strip()
RECURSIVE strip(_)
strip(line) ==
    IF line = << >> THEN line
    ELSE IF Head(line) \in Whitespace THEN strip(Tail(line))
    ELSE IF line[Len(line)] \in Whitespace THEN strip(SubSeq(line, 1, Len(line) - 1))
    ELSE line

\* line.count("\t")
count_tabs(line) == Cardinality({i \in 1..Len(line) : line[i] = "\t"})

None == <<"None">>

\* lines 311-324: the data of an entry that has just been named
NewData ==
    [PRECURSORMZ |-> None, PRECURSORTYPE |-> None, RETENTIONTIME |-> None,
     SMILES |-> None, INCHIKEY |-> None, FORMULA |-> None, CCS |-> None,
     IONMODE |-> None, COMPOUNDCLASS |-> None, Comment |-> None,
     NumPeaks |-> 0, PEAKS |-> << >>]

\* lines 396-409: the data of an entry created from a row of the table
CreatedData(row) ==
    [PRECURSORMZ |-> row.PRECURSORMZ, PRECURSORTYPE |-> row.PRECURSORTYPE,
     RETENTIONTIME |-> row.RETENTIONTIME,
     SMILES |-> << >>, INCHIKEY |-> << >>, FORMULA |-> << >>, CCS |-> << >>,
     IONMODE |-> row.IONMODE, COMPOUNDCLASS |-> << >>, Comment |-> << >>,
     NumPeaks |-> 0, PEAKS |-> << >>]

\* name in txt_data
HasKey(dict, name) == \E k \in 1..Len(dict) : dict[k].name = name

KeyIndex(dict, name) == CHOOSE k \in 1..Len(dict) : dict[k].name = name

\* txt_data[name] = data
SetItem(dict, name, data) ==
    IF HasKey(dict, name)
    THEN [dict EXCEPT ![KeyIndex(dict, name)].data = data]
    ELSE Append(dict, [name |-> name, data |-> data])

\* txt_data[name][field] = value
SetField(dict, name, field, value) ==
    [dict EXCEPT ![KeyIndex(dict, name)].data[field] = value]

\* the fields whose value is taken without a test of the split (lines
\* 326-336) and those that default to "" (lines 338-371)
PlainFields == <<"PRECURSORMZ", "PRECURSORTYPE", "RETENTIONTIME">>

DefaultFields == <<"SMILES", "INCHIKEY", "FORMULA", "CCS", "IONMODE",
                   "COMPOUNDCLASS", "Comment">>

\* the first token of the line of a field
Label(field) == <<field \o ":">>

NumPeaksLabel == <<"Num", " ", "Peaks:">>

\* the field among fields whose label the line starts with, or "" if none
FieldOf(line, fields) ==
    IF \E k \in 1..Len(fields) : startswith(line, Label(fields[k]))
    THEN fields[CHOOSE k \in 1..Len(fields) : startswith(line, Label(fields[k]))]
    ELSE ""

\* int(s) of a word
IsIntWord(word) == Len(word) = 1 /\ word[1] \in DigitChars

\* lines 308-376, the chain of tests on one line; st is the record of
\* txt_data, current_name and the exception raised, if any
ParseFields(st, line) ==
    LET stripped == strip(line)
        truthy   == st.current_name # None /\ st.current_name # << >>
    IN  IF startswith(line, <<"NAME:">>)
        THEN LET pieces == split(stripped, <<"NAME:", " ">>)
             IN  IF Len(pieces) < 2 THEN [st EXCEPT !.raised = "IndexError"]
                 ELSE [st EXCEPT !.current_name = pieces[2],
                                 !.txt_data = SetItem(@, pieces[2], NewData)]
        ELSE IF FieldOf(line, PlainFields) # ""
        THEN LET field  == FieldOf(line, PlainFields)
                 pieces == split(stripped, Label(field) \o <<" ">>)
             IN  IF ~truthy THEN st
                 ELSE IF Len(pieces) < 2 THEN [st EXCEPT !.raised = "IndexError"]
                 ELSE [st EXCEPT !.txt_data =
                                     SetField(@, st.current_name, field, pieces[2])]
        ELSE IF FieldOf(line, DefaultFields) # ""
        THEN LET field  == FieldOf(line, DefaultFields)
                 pieces == split(stripped, Label(field) \o <<" ">>)
             IN  IF ~truthy THEN st
                 ELSE [st EXCEPT !.txt_data =
                          SetField(@, st.current_name, field,
                                   IF Len(pieces) > 1 THEN pieces[2] ELSE << >>)]
        ELSE IF startswith(line, NumPeaksLabel)
        THEN LET pieces == split(stripped, NumPeaksLabel \o <<" ">>)
             IN  IF ~truthy THEN st
                 ELSE IF Len(pieces) > 1 /\ ~IsIntWord(pieces[2])
                 THEN [st EXCEPT !.raised = "ValueError"]
                 ELSE [st EXCEPT !.txt_data =
                          SetField(@, st.current_name, "NumPeaks",
                                   IF Len(pieces) > 1 THEN DigitVal(pieces[2][1]) ELSE 0)]
        ELSE st

\* lines 308-379: one line, with the test for a peak line that follows the
\* chain
ParseLine(st, line) ==
    IF st.raised # "None" THEN st
    ELSE LET after  == ParseFields(st, line)
             truthy == after.current_name # None /\ after.current_name # << >>
         IN  IF after.raised = "None" /\ truthy /\ strip(line) # << >>
                /\ count_tabs(strip(line)) = 1
             THEN [after EXCEPT !.txt_data =
                      SetField(@, after.current_name, "PEAKS",
                               Append(@[KeyIndex(@, after.current_name)].data.PEAKS,
                                      strip(line)))]
             ELSE after

RECURSIVE ParseLines(_, _)
ParseLines(st, lines) ==
    IF lines = << >> THEN st ELSE ParseLines(ParseLine(st, Head(lines)), Tail(lines))

\* lines 305-379: the loop over the entries
RECURSIVE ParseEntries(_, _)
ParseEntries(st, entries) ==
    IF entries = << >> THEN st
    ELSE ParseEntries(ParseLines(st, split(Head(entries), <<"\n">>)), Tail(entries))

\* lines 296-379
parse_file(text) ==
    LET normalized_text == normalize_whitespace(text)
        entries         == Tail(split(normalized_text, <<"NAME:", " ">>))
    IN  ParseEntries([txt_data |-> << >>, current_name |-> None, raised |-> "None"],
                     entries)

\* lines 381-409 for one row of the table
update_or_create(dict, row) ==
    IF HasKey(dict, row.NAME)
    THEN LET k == KeyIndex(dict, row.NAME)
         IN  [dict EXCEPT ![k].data.PRECURSORMZ = row.PRECURSORMZ,
                          ![k].data.RETENTIONTIME = row.RETENTIONTIME,
                          ![k].data.PRECURSORTYPE = row.PRECURSORTYPE,
                          ![k].data.IONMODE = row.IONMODE]
    ELSE Append(dict, [name |-> row.NAME, data |-> CreatedData(row)])

\* lines 412-429 for one item of txt_data
EntryText(name, data) ==
    << <<"NAME:", " ">> \o name,
       <<"PRECURSORMZ:", " ">> \o data.PRECURSORMZ,
       <<"PRECURSORTYPE:", " ">> \o data.PRECURSORTYPE,
       <<"SMILES:", " ">> \o data.SMILES,
       <<"INCHIKEY:", " ">> \o data.INCHIKEY,
       <<"FORMULA:", " ">> \o data.FORMULA,
       <<"RETENTIONTIME:", " ">> \o data.RETENTIONTIME,
       <<"CCS:", " ">> \o data.CCS,
       <<"IONMODE:", " ">> \o data.IONMODE,
       <<"COMPOUNDCLASS:", " ">> \o data.COMPOUNDCLASS,
       <<"Comment:", " ">> \o data.Comment,
       NumPeaksLabel \o <<" ">> \o Decimal(data.NumPeaks) >>
    \o data.PEAKS \o << << >> >>

\* lines 411-429: updated_txt_lines
RECURSIVE updated_txt_lines(_)
updated_txt_lines(dict) ==
    IF dict = << >> THEN << >>
    ELSE EntryText(Head(dict).name, Head(dict).data) \o updated_txt_lines(Tail(dict))

\* the entries of the input file: a name, SMILES, and the number of peaks
MspEntryNames == {<<"Chol">>, <<"PC">>}

SmilesValues == {<<"CCO">>, << >>}

PeakLine == <<"100.0", "\t", "999">>

MspEntries == [name : MspEntryNames, SMILES : SmilesValues, peaks : {0, 1}]

\* the lines of an entry of the input file
MspEntryLines(e) ==
    << <<"NAME:", " ">> \o e.name,
       <<"PRECURSORMZ:", " ", "1.5">>,
       <<"PRECURSORTYPE:", " ", "[M+H]+">>,
       <<"SMILES:", " ">> \o e.SMILES,
       <<"INCHIKEY:", " ">>,
       <<"FORMULA:", " ", "C2H6O">>,
       <<"RETENTIONTIME:", " ", "5.2">>,
       <<"CCS:", " ">>,
       <<"IONMODE:", " ", "Positive">>,
       <<"COMPOUNDCLASS:", " ">>,
       <<"Comment:", " ", "reference", " ", "spectrum">>,
       NumPeaksLabel \o <<" ">> \o Decimal(e.peaks) >>
    \o [k \in 1..e.peaks |-> PeakLine] \o << << >> >>

\* the text of lines that each end with a newline
RECURSIVE TextOf(_)
TextOf(lines) ==
    IF lines = << >> THEN << >> ELSE Head(lines) \o <<"\n">> \o TextOf(Tail(lines))

RECURSIVE MspFileLines(_)
MspFileLines(es) ==
    IF es = << >> THEN << >> ELSE MspEntryLines(Head(es)) \o MspFileLines(Tail(es))

\* the MSP files of at most MaxEntries entries with different names
MspFiles ==
    {TextOf(MspFileLines(es)) :
        es \in UNION {{t \in [1..n -> MspEntries] :
                          \A i, j \in 1..n : t[i].name = t[j].name => i = j} :
                      n \in 0..MaxEntries}}

TableNames == {<<"Chol">>, <<"PC">>, <<"TG">>}

TableRow(name) ==
    [NAME |-> name, PRECURSORMZ |-> <<"2.5">>, RETENTIONTIME |-> <<"7.1">>,
     PRECURSORTYPE |-> <<"[M+Na]+">>, IONMODE |-> <<"Negative">>]

\* the tables of at most MaxEntries rows with different names
TableDfs ==
    UNION {{t \in [1..n -> {TableRow(name) : name \in TableNames}] :
               \A i, j \in 1..n : t[i].NAME = t[j].NAME => i = j} :
           n \in 0..MaxEntries}

InitModify ==
    /\ IsotopeIdle
    /\ ShuffleIdle
    /\ CsvIdle
    /\ MergeIdle
    /\ homDB_text \in MspFiles
    /\ table_df \in TableDfs
    /\ txt_data = << >>
    /\ updated_homeDB = << >>
    /\ modify_pc = [phase |-> "called", idx |-> 0]

\* lines 296-379: the file is read and parsed
read_and_parse ==
    /\ modify_pc.phase = "called"
    /\ LET st == parse_file(homDB_text)
       IN  /\ txt_data' = st.txt_data
           /\ modify_pc' = IF st.raised = "None"
                           THEN [phase |-> "parsed", idx |-> 0]
                           ELSE [phase |-> st.raised, idx |-> 0]
    /\ UNCHANGED <<homDB_text, table_df, updated_homeDB, notModify>>

\* lines 381-409: one pass of the loop over the rows of the table
table_row ==
    /\ modify_pc.phase = "parsed"
    /\ modify_pc.idx < Len(table_df)
    /\ txt_data' = update_or_create(txt_data, table_df[modify_pc.idx + 1])
    /\ modify_pc' = [modify_pc EXCEPT !.idx = @ + 1]
    /\ UNCHANGED <<homDB_text, table_df, updated_homeDB, notModify>>

\* lines 411-432: the output file is written; the lines are joined with
\* newlines
write_updated ==
    /\ modify_pc.phase = "parsed"
    /\ modify_pc.idx = Len(table_df)
    /\ updated_homeDB' = updated_txt_lines(txt_data)
    /\ modify_pc' = [modify_pc EXCEPT !.phase = "written"]
    /\ UNCHANGED <<homDB_text, table_df, txt_data, notModify>>

NextModify == read_and_parse \/ table_row \/ write_updated

SpecModify == InitModify /\ [][NextModify]_vars

----------------------------------------------------------------------------
(* Reference notions of the specification, used to state the properties *)

CHNO == {C_key, H_key, N_key, O_key}

Done == pc = "done"

\* at least one call has returned, so composition holds a parse result
Parsed == pc # "m1"

OverCHNO(comp) == DOMAIN comp \subseteq CHNO

TotalAtoms(comp) ==
    Get(comp, C_key) + Get(comp, H_key) + Get(comp, N_key) + Get(comp, O_key)

\* key is a symbol of the isotope table
InTable(key, tab) == Len(key) = 1 /\ key[1] \in DOMAIN tab

ShiftLimbs(a, k) == IF a = << >> THEN a ELSE [i \in 1..k |-> 0] \o a

BigLeq(a, b) == ~BigLess(b, a)

\* the real number 100
Hundred == RealOfInt(100)

\* Polynomials truncated to degree 3: index d + 1 holds the coefficient of
\* exponent d, an integer in units of 10^-6 per atom multiplied in.
PolyOne == <<BigOf(1), Zero, Zero, Zero>>

\* single-atom polynomial of a table element
AtomPoly(e, tab) ==
    IF e = "O"
    THEN <<BigOf(tab[e].n), BigOf(tab[e].p1), BigOf(tab[e].p2), Zero>>
    ELSE <<BigOf(tab[e].n), BigOf(tab[e].p), Zero, Zero>>

PolyMul(a, b) ==
    [d \in 1..4 |-> Sum([i \in 1..d |-> BigMul(a[i], b[d + 1 - i])])]

RECURSIVE PolyPow(_, _)
PolyPow(q, n) == IF n = 0 THEN PolyOne ELSE PolyMul(q, PolyPow(q, n - 1))

\* ensemble polynomial of a composition over C, H, N, O
Ensemble(comp, tab) ==
    PolyMul(PolyMul(PolyPow(AtomPoly("C", tab), Get(comp, C_key)),
                    PolyPow(AtomPoly("H", tab), Get(comp, H_key))),
            PolyMul(PolyPow(AtomPoly("N", tab), Get(comp, N_key)),
                    PolyPow(AtomPoly("O", tab), Get(comp, O_key))))

\* value = 100 * (coefficient of exponent d), with n atoms multiplied in
IsCoefficient(value, comp, tab, d) ==
    ShiftLimbs(value, 2 * TotalAtoms(comp))
        = ShiftLimbs(BigMulSmall(Ensemble(comp, tab)[d + 1], 100), ScaleLimbs)

\* a real rounded to one decimal place, as a number of tenths
RoundTenths(v) ==
    LET shifted == BigAdd(v, <<0, 0, 0, 0, 0, 50>>)
    IN  IF Len(shifted) <= 5 THEN Zero
        ELSE BigDivSmall(SubSeq(shifted, 6, Len(shifted)), 100)

\* Polynomials with real coefficients, truncated to degree 3, in which a
\* light atom weighs 1: the coefficient of exponent d of the product over
\* the atoms is the sum, over the assignments of heavy isotopes to distinct
\* atoms with total shift d, of the product of the assigned abundances.
WeightOne == <<RealOfInt(1), Zero, Zero, Zero>>

HeavyPoly(e, tab) ==
    IF e = "O"
    THEN <<RealOfInt(1), RealOfMicro(tab[e].p1), RealOfMicro(tab[e].p2), Zero>>
    ELSE <<RealOfInt(1), RealOfMicro(tab[e].p), Zero, Zero>>

HeavyMul(a, b) ==
    [d \in 1..4 |-> Sum([i \in 1..d |-> RealMul(a[i], b[d + 1 - i])])]

RECURSIVE HeavyPow(_, _)
HeavyPow(q, n) == IF n = 0 THEN WeightOne ELSE HeavyMul(q, HeavyPow(q, n - 1))

AssignmentSums(comp, tab) ==
    HeavyMul(HeavyMul(HeavyPow(HeavyPoly("C", tab), Get(comp, C_key)),
                      HeavyPow(HeavyPoly("H", tab), Get(comp, H_key))),
             HeavyMul(HeavyPow(HeavyPoly("N", tab), Get(comp, N_key)),
                      HeavyPow(HeavyPoly("O", tab), Get(comp, O_key))))

\* the string decomposes, left to right, into tokens of one upper-case
\* letter, at most one lower-case letter and optional digits
RECURSIVE DecomposesFrom(_, _)
DecomposesFrom(s, i) ==
    IF i > Len(s) THEN TRUE
    ELSE IF s[i] \notin UpperChars THEN FALSE
    ELSE LET j == IF i + 1 <= Len(s) /\ s[i + 1] \in LowerChars
                  THEN i + 2 ELSE i + 1
         IN  DecomposesFrom(s, SkipClass(s, j, DigitChars))

Decomposes(s) == DecomposesFrom(s, 1)

\* sum of the counts of the tokens of elem
RECURSIVE TokenSum(_, _)
TokenSum(elements, elem) ==
    IF elements = << >> THEN 0
    ELSE (IF Head(elements)[1] = elem THEN CountOf(Head(elements)[2]) ELSE 0)
            + TokenSum(Tail(elements), elem)

\* tokens (symbol, digits) of a string that decomposes
RECURSIVE TokensFrom(_, _)
TokensFrom(s, i) ==
    IF i > Len(s) THEN << >>
    ELSE LET j == IF i + 1 <= Len(s) /\ s[i + 1] \in LowerChars
                  THEN i + 2 ELSE i + 1
             k == SkipClass(s, j, DigitChars)
         IN  << <<SubSeq(s, i, j - 1), SubSeq(s, j, k - 1)>> >> \o TokensFrom(s, k)

DistinctSymbols(toks) ==
    \A i, j \in 1..Len(toks) : toks[i][1] = toks[j][1] => i = j

\* the string is well formed and no symbol occurs in two tokens
WellFormedDistinct(s) == Decomposes(s) /\ DistinctSymbols(TokensFrom(s, 1))

\* the number a string of decimal digits denotes, most significant first
RECURSIVE DecimalValue(_, _)
DecimalValue(digits, acc) ==
    IF digits = << >> THEN acc
    ELSE DecimalValue(Tail(digits), 10 * acc + DigitVal(Head(digits)))

\* the counts the tokens were written from (1 for a token without digits)
GeneratedCounts(toks) ==
    [sym \in {toks[i][1] : i \in 1..Len(toks)} |->
        LET i == CHOOSE i \in 1..Len(toks) : toks[i][1] = sym
        IN  IF toks[i][2] = << >> THEN 1 ELSE DecimalValue(toks[i][2], 0)]

\* canonical token string of a map: each symbol followed by its count, in
\* the order of the symbols of toks
RECURSIVE Serialize(_, _)
Serialize(toks, comp) ==
    IF toks = << >> THEN << >>
    ELSE Head(toks)[1] \o Decimal(comp[Head(toks)[1]]) \o Serialize(Tail(toks), comp)

\* the string ends with the token "E0" of a table element E
EndsWithZeroToken(f) ==
    /\ Len(f) >= 2
    /\ f[Len(f)] = "0"
    /\ f[Len(f) - 1] \in {"C", "H", "N", "O"}

WithoutLastToken(f) == SubSeq(f, 1, Len(f) - 2)

\* f is a formula over C, H, N, O followed by the zero token of an element
\* the formula does not have
ZeroTokenAdded(f) ==
    /\ EndsWithZeroToken(f)
    /\ OverCHNO(parse_formula(WithoutLastToken(f)))
    /\ <<f[Len(f) - 1]>> \notin DOMAIN parse_formula(WithoutLastToken(f))

----------------------------------------------------------------------------
(* Properties *)

\* C1: for a composition over C, H, N, O with at most MaxAtoms atoms, each
\* returned M+d value is 100 times the coefficient of exponent d of the
\* ensemble polynomial built from the light and heavy isotope probabilities.
EnsembleCoefficients ==
    (Done /\ OverCHNO(composition) /\ TotalAtoms(composition) <= MaxAtoms)
        => /\ IsCoefficient(probability_m1, composition, isotopic_abundances, 1)
           /\ IsCoefficient(probability, composition, isotopic_abundances, 2)
           /\ IsCoefficient(probability_m3, composition, isotopic_abundances, 3)

\* C2: when the formula has an element that is not in the isotope table,
\* every computation fails with UnknownElement and returns no number.
UnknownElementFails ==
    (Parsed /\ \E key \in DOMAIN composition : ~InTable(key, isotopic_abundances))
        => /\ raised = "UnknownElement"
           /\ probability_m1 = Unset
           /\ probability = Unset
           /\ probability_m3 = Unset

\* C3: parsing a string that does not decompose completely into tokens
\* fails with MalformedFormula; a composition is returned only for a string
\* that decomposes.
MalformedFormulaFails ==
    (Parsed /\ ~Decomposes(formula))
        => (raised = "MalformedFormula" /\ composition = << >>)

\* C4: the count returned for a symbol is the sum of the counts of all the
\* tokens of that symbol.
RepeatedSymbolsAdd ==
    Parsed => \A elem \in DOMAIN composition :
                  composition[elem] = TokenSum(findall(formula, 1), elem)

\* C5: for a composition over C, H, N, O each returned value is at most
\* 100 per cent and so is the sum of the three.
PercentagesInRange ==
    (Done /\ OverCHNO(composition))
        => /\ BigLeq(probability_m1, Hundred)
           /\ BigLeq(probability, Hundred)
           /\ BigLeq(probability_m3, Hundred)
           /\ BigLeq(BigAdd(probability_m1, BigAdd(probability, probability_m3)),
                     Hundred)

SingleCarbon ==
    (Done /\ formula \in {<<"C">>, <<"C", "1">>})
        => /\ probability_m1 = RealOfMicro(1070000)
           /\ probability = Zero
           /\ probability_m3 = Zero

SingleCarbonWitness ==
    Done /\ formula = <<"C", "1">> /\ composition = (C_key :> 1)

\* C8: for the formula of one oxygen atom ("O" or "O1") M+1 is 0.037 per
\* cent and M+2 is 0.204 per cent.
SingleOxygen ==
    (Done /\ formula \in {<<"O">>, <<"O", "1">>})
        => /\ probability_m1 = RealOfMicro(37000)
           /\ probability = RealOfMicro(204000)

SingleOxygenWitness ==
    Done /\ formula = <<"O">> /\ composition = (O_key :> 1)

\* C9: appending the zero token of an element that a formula over C, H, N,
\* O does not have leaves M+1, M+2 and M+3 as they are for the formula
\* without that token.
ZeroCountInvariance ==
    (Done /\ ZeroTokenAdded(formula))
        => /\ probability_m1 = calculate_m_plus_1_probability(
                                    WithoutLastToken(formula), isotopic_abundances)
           /\ probability = calculate_m_plus_2_probability(
                                    WithoutLastToken(formula), isotopic_abundances)
           /\ probability_m3 = calculate_m_plus_3_probability(
                                    WithoutLastToken(formula), isotopic_abundances)

ZeroCountInvarianceWitness ==
    /\ Done
    /\ ZeroTokenAdded(formula)
    /\ formula[Len(formula) - 1] = "O"
    /\ Get(composition, C_key) >= 3
    /\ Get(composition, H_key) >= 1
    /\ O_key \in DOMAIN composition
    /\ composition[O_key] = 0
    /\ BigLess(Zero, probability_m3)

\* C10: for a well-formed formula whose tokens have distinct symbols,
\* parse_formula returns the counts the string was written from, and
\* parsing the canonical token string of the returned map gives the same
\* map.
RoundTrip ==
    (Parsed /\ WellFormedDistinct(formula))
        => /\ composition = GeneratedCounts(TokensFrom(formula, 1))
           /\ parse_formula(Serialize(TokensFrom(formula, 1), composition))
                  = composition

RoundTripWitness ==
    /\ Parsed
    /\ WellFormedDistinct(formula)
    /\ Len(TokensFrom(formula, 1)) >= 3
    /\ \E key \in DOMAIN composition : composition[key] >= 10
    /\ \E key \in DOMAIN composition : composition[key] = 1

CountsPositive ==
    Parsed => \A key \in DOMAIN composition : composition[key] >= 1

\* C17: for a composition over C, H, N, O with at most MaxAtoms atoms each
\* returned M+d value is 100 times the sum, over the assignments of heavy
\* isotopes to distinct atoms whose shifts total d, of the product of the
\* assigned abundances, each assignment counted once (light atoms weigh 1).
ExhaustiveEnumeration ==
    (Done /\ OverCHNO(composition) /\ TotalAtoms(composition) <= MaxAtoms)
        => LET sums == AssignmentSums(composition, isotopic_abundances)
           IN  /\ probability_m1 = BigMulSmall(sums[2], 100)
               /\ probability = BigMulSmall(sums[3], 100)
               /\ probability_m3 = BigMulSmall(sums[4], 100)

\* what a call returns when it runs alone
AloneResult(fn, f) ==
    IF fn = "parse_formula" THEN parse_formula(f)
    ELSE IF fn = "calculate_m_plus_1_probability"
    THEN calculate_m_plus_1_probability(f, IsotopeTable)
    ELSE IF fn = "calculate_m_plus_2_probability"
    THEN calculate_m_plus_2_probability(f, IsotopeTable)
    ELSE calculate_m_plus_3_probability(f, IsotopeTable)

\* C13: after any sequence of calls of parse_formula and the three
\* probability functions the table holds its initial values.
TableUnchanged == isotopic_abundances = IsotopeTable

TableUnchangedWitness ==
    /\ \A t \in Threads : calls[t].pc = "returned"
    /\ \E t \in Threads : calls[t].fn = "calculate_m_plus_3_probability"
    /\ \E t \in Threads : calls[t].fn = "parse_formula"

\* C14: in every interleaving of concurrent calls each call returns what
\* it returns when it runs alone.
ConcurrentCallsPure ==
    \A t \in Threads :
        /\ calls[t].pc = "returned"
              => calls[t].result = AloneResult(calls[t].fn, calls[t].formula)
        /\ calls[t].pc = "compute" => calls[t].table = IsotopeTable

ConcurrentCallsPureWitness ==
    /\ calls[1].pc = "returned"
    /\ calls[1].fn = "calculate_m_plus_2_probability"
    /\ calls[2].pc = "compute"
    /\ calls[2].fn = "calculate_m_plus_3_probability"
    /\ calls[1].formula # calls[2].formula

\* the cells appended to the row of the sample of original index i (from
\* 1) in the randomised file
ExtrasOfSample(i) ==
    LET k   == CHOOSE k \in 1..Len(shuffled_table_with_index) :
                   shuffled_table_with_index[k][1] = i - 1
        row == randomised_file[k]
    IN  SubSeq(row, Len(excel_file[i]) + 2, Len(row))

\* the last n cells of a row
LastCells(row, n) == SubSeq(row, Len(row) - n + 1, Len(row))

\* C16: after shuffle and recover the rows are in their original order and
\* each row holds its original values followed by the columns appended to
\* the row of the same sample in the randomised file.
ShuffleRecoverRoundTrip ==
    gui_pc = "recovered"
        => /\ Len(recovered_file) = Len(excel_file)
           /\ \A i \in 1..Len(excel_file) :
                  LET expected == excel_file[i] \o ExtrasOfSample(i)
                  IN  /\ Len(recovered_file[i]) >= Len(expected)
                      /\ LastCells(recovered_file[i], Len(expected)) = expected


\* a Peak Label that contains the letter F
HasF(label) == label # NaN /\ "F" \in {label[i] : i \in 1..Len(label)}

\* the places <<d, i>> of the rows whose Peak Label does not contain F, in
\* the order of the DataFrames and of their rows
RECURSIVE MainPlaces(_, _)
MainPlaces(d, i) ==
    IF d > Len(dfs) THEN << >>
    ELSE IF i > Len(dfs[d]) THEN MainPlaces(d + 1, 1)
    ELSE (IF HasF(dfs[d][i].PeakLabel) THEN << >> ELSE << <<d, i>> >>)
             \o MainPlaces(d, i + 1)

\* the number of rows of DataFrame d with the given Compound and a Peak
\* Label that contains F
FragmentRows(d, name) ==
    Cardinality({i \in 1..Len(dfs[d]) :
                    dfs[d][i].Compound = name /\ HasF(dfs[d][i].PeakLabel)})

IsNameLine(line) == line # << >> /\ line[1] = "NAME: "

\* the line numbers of the NAME lines of the written file, in order
NameLines == SelectSeq([i \in 1..Len(HomeDB_MS2) |-> i],
                       LAMBDA i : IsNameLine(HomeDB_MS2[i]))

\* the lines of the j-th entry of the written file
EntryLines(j) ==
    SubSeq(HomeDB_MS2, NameLines[j],
           IF j < Len(NameLines) THEN NameLines[j + 1] - 1 ELSE Len(HomeDB_MS2))

\* the value of the Num Peaks line of an entry
NumPeaksValue(lines) ==
    LET i == CHOOSE i \in 1..Len(lines) :
                 lines[i] # << >> /\ lines[i][1] = "Num Peaks: "
    IN  DecimalValue(Tail(lines[i]), 0)

\* the number of peak lines of an entry: the lines after its Num Peaks line
\* that are not empty
PeakLineCount(lines) ==
    LET i == CHOOSE i \in 1..Len(lines) :
                 lines[i] # << >> /\ lines[i][1] = "Num Peaks: "
    IN  Cardinality({k \in (i + 1)..Len(lines) : lines[k] # << >>})

\* C19: the written file holds one entry per row whose Peak Label does not
\* contain F, in row order within each DataFrame, and in each entry the Num
\* Peaks value equals the number of its peak lines, which equals the number
\* of rows of the same DataFrame with the same Compound and a Peak Label
\* containing F.
CsvToMspEntries ==
    csv_pc.phase = "written"
        => LET places == MainPlaces(1, 1)
           IN  /\ Len(NameLines) = Len(places)
               /\ \A j \in 1..Len(places) :
                      LET d     == places[j][1]
                          row   == dfs[d][places[j][2]]
                          lines == EntryLines(j)
                      IN  /\ lines[1] = <<"NAME: ", row.Compound>>
                          /\ NumPeaksValue(lines) = PeakLineCount(lines)
                          /\ PeakLineCount(lines) = FragmentRows(d, row.Compound)

\* a written file of two DataFrames with an entry that has a peak, in a
\* DataFrame that also holds a fragment row of another compound
CsvToMspEntriesWitness ==
    /\ csv_pc.phase = "written"
    /\ Len(dfs) = 2
    /\ \E d \in 1..Len(dfs) : \E i, k \in 1..Len(dfs[d]) :
           /\ ~HasF(dfs[d][i].PeakLabel)
           /\ FragmentRows(d, dfs[d][i].Compound) = 1
           /\ HasF(dfs[d][k].PeakLabel)
           /\ dfs[d][k].Compound # dfs[d][i].Compound


\* the names of the rows of a table
RawNames(t) == {t[k].NAME : k \in 1..Len(t)}

\* the row of a table with a name
RowOf(t, name) == t[CHOOSE k \in 1..Len(t) : t[k].NAME = name]

\* the rows of the merged table with a name
MergedRows(name) == {k \in 1..Len(total_data) : total_data[k].NAME = name}

Norm1(name) == lower(replace_prefix(name, Carnitine, <<"C", "a", "r">>))

Norm2(name) == lower(replace_prefix(name, CAR, <<"C", "a", "r">>))

Names1 == {Norm1(n) : n \in RawNames(MSP1)}

Names2 == {Norm2(n) : n \in RawNames(MSP2)}

Names3 == {Norm2(n) : n \in RawNames(MSP3)}

\* no two rows of a file get the same name by the pre-processing
UniqueNormalised ==
    /\ \A i, j \in 1..Len(MSP1) : Norm1(MSP1[i].NAME) = Norm1(MSP1[j].NAME) => i = j
    /\ \A i, j \in 1..Len(MSP2) : Norm2(MSP2[i].NAME) = Norm2(MSP2[j].NAME) => i = j
    /\ \A i, j \in 1..Len(MSP3) : Norm2(MSP3[i].NAME) = Norm2(MSP3[j].NAME) => i = j

\* the row of a file whose name is filed under a pre-processed name
Row1(name) == MSP1[CHOOSE k \in 1..Len(MSP1) : Norm1(MSP1[k].NAME) = name]

Row2(name) == MSP2[CHOOSE k \in 1..Len(MSP2) : Norm2(MSP2[k].NAME) = name]

Row3(name) == MSP3[CHOOSE k \in 1..Len(MSP3) : Norm2(MSP3[k].NAME) = name]

TextLines(text) == split(text, <<"\n">>)

\* the numbers of the lines of a sequence of lines that start an entry
EntryStarts(lines) ==
    SelectSeq([i \in 1..Len(lines) |-> i],
              LAMBDA i : lines[i] # << >> /\ lines[i][1] = "NAME:")

\* the lines of the entry that starts at the j-th NAME line
EntryBlock(lines, j) ==
    LET starts == EntryStarts(lines)
    IN  SubSeq(lines, starts[j],
               IF j < Len(starts) THEN starts[j + 1] - 1 ELSE Len(lines))

\* the value of a line: what follows its label and the space
ValueAfter(line, label) == SubSeq(line, Len(label) + 2, Len(line))

\* the value of the field with a label in the lines of an entry
FieldValue(block, label) ==
    LET i == CHOOSE i \in 1..Len(block) :
                 Len(block[i]) >= Len(label) /\ SubSeq(block[i], 1, Len(label)) = label
    IN  ValueAfter(block[i], label)

\* the peak lines of an entry: its lines with one tab
PeakLines(block) ==
    SelectSeq(block, LAMBDA line : Cardinality({i \in 1..Len(line) : line[i] = "\t"}) = 1)

NameOf(block) == ValueAfter(block[1], <<"NAME:">>)

\* the entries of the input file and of the output file
InputBlocks ==
    LET lines == TextLines(homDB_text)
    IN  [j \in 1..Len(EntryStarts(lines)) |-> EntryBlock(lines, j)]

OutputBlocks ==
    [j \in 1..Len(EntryStarts(updated_homeDB)) |-> EntryBlock(updated_homeDB, j)]

\* the labels of the fields the table replaces, and of the fields it does not
TableLabels == { <<"PRECURSORMZ:">>, <<"RETENTIONTIME:">>, <<"PRECURSORTYPE:">>,
                 <<"IONMODE:">> }

KeptLabels == { <<"SMILES:">>, <<"INCHIKEY:">>, <<"FORMULA:">>, <<"CCS:">>,
                <<"COMPOUNDCLASS:">>, <<"Comment:">>, <<"Num", " ", "Peaks:">> }

\* the value of the table for a name and the label of a field
TableValue(name, label) ==
    LET row == table_df[CHOOSE k \in 1..Len(table_df) : table_df[k].NAME = name]
    IN  IF label = <<"PRECURSORMZ:">> THEN row.PRECURSORMZ
        ELSE IF label = <<"RETENTIONTIME:">> THEN row.RETENTIONTIME
        ELSE IF label = <<"PRECURSORTYPE:">> THEN row.PRECURSORTYPE
        ELSE row.IONMODE

InTableDf(name) == \E k \in 1..Len(table_df) : table_df[k].NAME = name

\* C15: every entry of the input file is in the output file under the same
\* NAME; for a NAME that is in the table only PRECURSORMZ, RETENTIONTIME,
\* PRECURSORTYPE and IONMODE are replaced by the values of the table, and
\* the other fields and the peak lines keep their input values; a NAME of
\* the table that is not in the input file is added as an entry whose other
\* fields are empty.
UpdateOrCreate ==
    modify_pc.phase = "written"
        => /\ \A i \in 1..Len(InputBlocks) :
                 \E o \in 1..Len(OutputBlocks) :
                    LET in  == InputBlocks[i]
                        out == OutputBlocks[o]
                    IN  /\ NameOf(out) = NameOf(in)
                        /\ \A label \in KeptLabels :
                               FieldValue(out, label) = FieldValue(in, label)
                        /\ PeakLines(out) = PeakLines(in)
                        /\ \A label \in TableLabels :
                               FieldValue(out, label) =
                                   IF InTableDf(NameOf(in))
                                   THEN TableValue(NameOf(in), label)
                                   ELSE FieldValue(in, label)
           /\ \A k \in 1..Len(table_df) :
                 (\A i \in 1..Len(InputBlocks) : NameOf(InputBlocks[i]) # table_df[k].NAME)
                     => \E o \in 1..Len(OutputBlocks) :
                           LET out == OutputBlocks[o]
                           IN  /\ NameOf(out) = table_df[k].NAME
                               /\ \A label \in TableLabels :
                                      FieldValue(out, label) =
                                          TableValue(table_df[k].NAME, label)
                               /\ \A label \in KeptLabels \ { <<"Num", " ", "Peaks:">> } :
                                      FieldValue(out, label) = << >>
                               /\ PeakLines(out) = << >>

====
